---- MODULE Spec2Model ----
(***************************************************************************)
(* snes-apu: the APU bus of src/src/apu.rs (RAM, the I/O registers         *)
(* 0x00F0-0x00FF, the IPL ROM overlay, the DSP register window, the        *)
(* snapshot restore and render), the three timers of src/src/timer.rs and  *)
(* the SPC file loader of src/src/spc.rs.                                  *)
(*                                                                         *)
(* Bytes are naturals below 256.  RAM is modelled on the cells of Cells,   *)
(* the DSP register file on the registers of DspRegs; every other cell is  *)
(* handled by the same match arm as one of the modelled ones.              *)
(***************************************************************************)
EXTENDS Integers, Sequences, FiniteSets, TLC

VARIABLES
    ram,                 \* Apu.ram, on Cells
    ipl_rom,             \* Apu.ipl_rom, a 64-tuple (offset i is ipl_rom[i + 1])
    timers,              \* Apu.timers, [0..2 -> Timer]
    is_ipl_rom_enabled,  \* Apu.is_ipl_rom_enabled
    dsp_reg_address,     \* Apu.dsp_reg_address
    dsp,                 \* the register file of Apu.dsp, on DspRegs
    panicked,            \* the thread has panicked (unimplemented!, overflow)
    overflow_checks,     \* the build traps on integer overflow (debug profile)
    ret,                 \* the value the last read_u8 / read_counter returned
    read_at,             \* history: the address of the last read_u8, -1 before any
    written,             \* history: the last value written to a tracked address
    origin,              \* history: the constructor, "new" or "from_spc"
    elapsed,             \* history: number of cycle callbacks / tick calls so far
    internal,            \* history: number of internal ticks of the lone timer
    pc,                  \* the position of the lone timer's driver
    timer,               \* a Timer used on its own, through its public methods
    fresh,               \* a second, freshly constructed Timer
    mark,                \* history: the lone timer at its last (re)start
    file,                \* the file at the path given to Spc::load
    loaded,              \* the outcome of Spc::load
    output_buffer,       \* Dsp.output_buffer, the FIFO of rendered samples
    buffer,              \* the caller's buffer passed to Apu::render
    consumed             \* history: the number of samples moved out so far

vars == <<ram, ipl_rom, timers, is_ipl_rom_enabled, dsp_reg_address, dsp,
          panicked, overflow_checks, ret, read_at, written, origin, elapsed, internal, pc,
          timer, fresh, mark, file, loaded, output_buffer, buffer, consumed>>

apu_vars == <<ram, ipl_rom, timers, is_ipl_rom_enabled, dsp_reg_address, dsp,
              written, origin>>

lone_vars == <<timer, fresh, mark, internal, pc>>

spc_vars == <<file, loaded>>

render_vars == <<output_buffer, buffer, consumed>>

----------------------------------------------------------------------------
(* Program constants                                                       *)

IPL_ROM_LEN == 64

DEFAULT_IPL_ROM ==
    << 205, 239, 189, 232,   0, 198,  29, 208, 252, 143, 170, 244, 143, 187, 245, 120,
       204, 244, 208, 251,  47,  25, 235, 244, 208, 252, 126, 244, 208,  11, 228, 245,
       203, 244, 215,   0, 252, 208, 243, 171,   1,  16, 239, 126, 244,  16, 235, 186,
       246, 218,   0, 186, 244, 196, 244, 221,  93, 208, 219,  31,   0,   0, 192, 255 >>

\* Option<NonZeroU8>: None is the empty tuple, Some(n) the tuple <<n>>.
None == << >>

Some(n) == <<n>>

\* value & mask != 0, for a mask that is a power of two.
BitSet(value, mask) == (value \div mask) % 2 = 1

----------------------------------------------------------------------------
(* Timer (src/src/timer.rs)                                                *)

Timer_new(resolution) ==
    [ resolution   |-> resolution,
      is_running   |-> FALSE,
      ticks        |-> 0,
      target       |-> None,
      counter_low  |-> 0,
      counter_high |-> 0 ]

\* The outcome of a Timer method that can trap.
Done(self) == [timer |-> self, panicked |-> FALSE]

Trapped(self) == [timer |-> self, panicked |-> TRUE]

\* tick with `>=` for `>` in the comparison of the accumulator.
tick_ge(self) ==
    IF ~self.is_running THEN Done(self)
    ELSE
      LET ticks1 == self.ticks + 1 IN
      IF ticks1 >= self.resolution
      THEN
        LET ticks2 == ticks1 - self.resolution
            t2     == [self EXCEPT !.ticks = ticks2]
            low1   == (self.counter_low + 1) % 256
            t3     == [t2 EXCEPT !.counter_low = low1]
        IN  IF overflow_checks /\ self.counter_low + 1 > 255
            THEN Trapped(t2)
            ELSE IF self.target # None /\ low1 = self.target[1]
            THEN IF overflow_checks /\ self.counter_high + 1 > 255
                 THEN Trapped(t3)
                 ELSE Done([t3 EXCEPT !.counter_high = (@ + 1) % 256,
                                      !.counter_low = 0])
            ELSE Done(t3)
      ELSE Done([self EXCEPT !.ticks = ticks1])

\* Timer::tick.  `+= 1` on a u8 wraps in a build without overflow checks and
\* panics in a build with them.
tick(self) ==
    IF ~self.is_running THEN Done(self)
    ELSE
      LET ticks1 == self.ticks + 1 IN
      IF ticks1 > self.resolution
      THEN
        LET ticks2 == ticks1 - self.resolution
            t2     == [self EXCEPT !.ticks = ticks2]
            low1   == (self.counter_low + 1) % 256
            t3     == [t2 EXCEPT !.counter_low = low1]
        IN  IF overflow_checks /\ self.counter_low + 1 > 255
            THEN Trapped(t2)
            ELSE IF self.target # None /\ low1 = self.target[1]
            THEN IF overflow_checks /\ self.counter_high + 1 > 255
                 THEN Trapped(t3)
                 ELSE Done([t3 EXCEPT !.counter_high = (@ + 1) % 256,
                                      !.counter_low = 0])
            ELSE Done(t3)
      ELSE Done([self EXCEPT !.ticks = ticks1])

\* set_start_stop_bit that also clears counter_high on a start.
set_start_stop_bit_clear_high(self, value) ==
    IF value /\ ~self.is_running
    THEN [self EXCEPT !.ticks = 0, !.counter_low = 0, !.counter_high = 0,
                      !.is_running = value]
    ELSE [self EXCEPT !.is_running = value]

\* set_start_stop_bit that forgets to clear counter_low on a start.
set_start_stop_bit_keep_low(self, value) ==
    IF value /\ ~self.is_running
    THEN [self EXCEPT !.ticks = 0, !.is_running = value]
    ELSE [self EXCEPT !.is_running = value]

\* set_start_stop_bit that resets on every call with `true`.
set_start_stop_bit_always_reset(self, value) ==
    IF value
    THEN [self EXCEPT !.ticks = 0, !.counter_low = 0, !.is_running = value]
    ELSE [self EXCEPT !.is_running = value]

\* Timer::set_start_stop_bit
set_start_stop_bit(self, value) ==
    IF value /\ ~self.is_running
    THEN [self EXCEPT !.ticks = 0, !.counter_low = 0, !.is_running = value]
    ELSE [self EXCEPT !.is_running = value]

\* set_target that resets a counter_low the new target does not exceed.
set_target_reset(self, value) ==
    [self EXCEPT !.target = IF value = 0 THEN None ELSE Some(value),
                 !.counter_low = IF value <= @ THEN 0 ELSE @]

\* Timer::set_target
set_target(self, value) ==
    [self EXCEPT !.target = IF value = 0 THEN None ELSE Some(value)]

\* read_counter without the 4-bit mask.
read_counter_unmasked(self) ==
    [ret |-> self.counter_high, timer |-> [self EXCEPT !.counter_high = 0]]

\* read_counter that clears counter_low as well.
read_counter_clear_low(self) ==
    [ret |-> self.counter_high % 16,
     timer |-> [self EXCEPT !.counter_high = 0, !.counter_low = 0]]

\* Timer::read_counter
read_counter(self) ==
    [ret |-> self.counter_high % 16, timer |-> [self EXCEPT !.counter_high = 0]]

\* Timer::cpu_cycles_callback: tick() applied num_cycles times; a trap ends it.
\* (The halving keeps the evaluation shallow; a stopped timer is left as it is
\* by every tick.)
RECURSIVE Timer_cpu_cycles_callback(_, _)
Timer_cpu_cycles_callback(self, num_cycles) ==
    IF num_cycles = 0 \/ ~self.is_running THEN Done(self)
    ELSE IF num_cycles = 1 THEN tick(self)
    ELSE LET half  == num_cycles \div 2
             first == Timer_cpu_cycles_callback(self, half)
         IN  IF first.panicked THEN first
             ELSE Timer_cpu_cycles_callback(first.timer, num_cycles - half)

----------------------------------------------------------------------------
(* Apu (src/src/apu.rs)                                                    *)

\* The RAM cells the model keeps: the last cell below the I/O page, the I/O
\* page 0x00F0-0x00FF, the first cell above it, the last cell below the IPL
\* window and the two ends of the IPL window 0xFFC0-0xFFFF.
Cells == {239} \cup (240 .. 255) \cup {256, 65471, 65472, 65535}

\* The DSP registers the model keeps (0x00, 0x42 and 0x4C of the 128).
DspRegs == {0, 66, 76}

\* The state of an Apu, as the methods below take and return it.
Self ==
    [ ram                |-> ram,
      ipl_rom            |-> ipl_rom,
      timers             |-> timers,
      is_ipl_rom_enabled |-> is_ipl_rom_enabled,
      dsp_reg_address    |-> dsp_reg_address,
      dsp                |-> dsp,
      panicked           |-> panicked ]

\* Dsp::get_register, Dsp::set_register: a plain register file.
Dsp_get_register(regs, address) == regs[address]

Dsp_set_register(regs, address, value) == [regs EXCEPT ![address] = value]

\* Dsp::set_state: the register file is restored from the snapshot.
Dsp_set_state(spc) == spc.regs

\* Apu::new
Apu_new ==
    [ ram                |-> [c \in Cells |-> 0],
      ipl_rom            |-> DEFAULT_IPL_ROM,
      timers             |-> [i \in 0 .. 2 |-> IF i = 2 THEN Timer_new(32) ELSE Timer_new(256)],
      is_ipl_rom_enabled |-> TRUE,
      dsp_reg_address    |-> 0,
      dsp                |-> [r \in DspRegs |-> 0],
      panicked           |-> FALSE ]

\* read_u8 whose I/O page shows the RAM byte underneath the write-only registers.
read_u8_ram_under(self, address) ==
    IF address = 242 THEN [ret |-> self.dsp_reg_address, apu |-> self]
    ELSE IF address = 243
    THEN [ret |-> Dsp_get_register(self.dsp, self.dsp_reg_address), apu |-> self]
    ELSE IF address \in 253 .. 255
    THEN LET r == read_counter(self.timers[address - 253])
         IN  [ret |-> r.ret, apu |-> [self EXCEPT !.timers[address - 253] = r.timer]]
    ELSE IF address >= 65472 /\ self.is_ipl_rom_enabled
    THEN [ret |-> self.ipl_rom[(address - 65472) + 1], apu |-> self]
    ELSE [ret |-> self.ram[address], apu |-> self]

\* read_u8 that keeps showing the IPL ROM when it is disabled.
read_u8_rom_always(self, address) ==
    IF address \in {240, 241} THEN [ret |-> 0, apu |-> self]
    ELSE IF address = 242 THEN [ret |-> self.dsp_reg_address, apu |-> self]
    ELSE IF address = 243
    THEN [ret |-> Dsp_get_register(self.dsp, self.dsp_reg_address), apu |-> self]
    ELSE IF address \in 250 .. 252 THEN [ret |-> 0, apu |-> self]
    ELSE IF address \in 253 .. 255
    THEN LET r == read_counter(self.timers[address - 253])
         IN  [ret |-> r.ret, apu |-> [self EXCEPT !.timers[address - 253] = r.timer]]
    ELSE IF address >= 65472
    THEN [ret |-> self.ipl_rom[(address - 65472) + 1], apu |-> self]
    ELSE [ret |-> self.ram[address], apu |-> self]

\* Apu::read_u8: the value returned and the Apu after the read.
read_u8(self, address) ==
    IF address \in {240, 241} THEN [ret |-> 0, apu |-> self]
    ELSE IF address = 242 THEN [ret |-> self.dsp_reg_address, apu |-> self]
    ELSE IF address = 243
    THEN [ret |-> Dsp_get_register(self.dsp, self.dsp_reg_address), apu |-> self]
    ELSE IF address \in 250 .. 252 THEN [ret |-> 0, apu |-> self]
    ELSE IF address \in 253 .. 255
    THEN LET r == read_counter(self.timers[address - 253])
         IN  [ret |-> r.ret, apu |-> [self EXCEPT !.timers[address - 253] = r.timer]]
    ELSE IF address >= 65472 /\ self.is_ipl_rom_enabled
    THEN [ret |-> self.ipl_rom[(address - 65472) + 1], apu |-> self]
    ELSE [ret |-> self.ram[address], apu |-> self]

\* Apu::set_test_reg: unimplemented!() panics.
set_test_reg(self, value) == [self EXCEPT !.panicked = TRUE]

RECURSIVE write_u8(_, _, _)

\* set_control_reg with the two mailbox-clear bits exchanged.
set_control_reg_swapped(self, value) ==
    LET s1 == [self EXCEPT !.is_ipl_rom_enabled = BitSet(value, 128)]
        s2 == IF BitSet(value, 16)
              THEN write_u8(write_u8(s1, 246, 0), 247, 0)
              ELSE s1
        s3 == IF BitSet(value, 32)
              THEN write_u8(write_u8(s2, 244, 0), 245, 0)
              ELSE s2
    IN  [s3 EXCEPT !.timers =
            [i \in 0 .. 2 |->
                set_start_stop_bit(s3.timers[i],
                    BitSet(value, IF i = 0 THEN 1 ELSE IF i = 1 THEN 2 ELSE 4))]]

\* set_control_reg with the bits of timers 1 and 2 exchanged.
set_control_reg_timer_bits(self, value) ==
    LET s1 == [self EXCEPT !.is_ipl_rom_enabled = BitSet(value, 128)]
        s2 == IF BitSet(value, 32)
              THEN write_u8(write_u8(s1, 246, 0), 247, 0)
              ELSE s1
        s3 == IF BitSet(value, 16)
              THEN write_u8(write_u8(s2, 244, 0), 245, 0)
              ELSE s2
    IN  [s3 EXCEPT !.timers =
            [i \in 0 .. 2 |->
                set_start_stop_bit(s3.timers[i],
                    BitSet(value, IF i = 0 THEN 1 ELSE IF i = 1 THEN 4 ELSE 2))]]

\* Apu::set_control_reg
set_control_reg(self, value) ==
    LET s1 == [self EXCEPT !.is_ipl_rom_enabled = BitSet(value, 128)]
        s2 == IF BitSet(value, 32)
              THEN write_u8(write_u8(s1, 246, 0), 247, 0)
              ELSE s1
        s3 == IF BitSet(value, 16)
              THEN write_u8(write_u8(s2, 244, 0), 245, 0)
              ELSE s2
    IN  [s3 EXCEPT !.timers =
            [i \in 0 .. 2 |->
                set_start_stop_bit(s3.timers[i],
                    BitSet(value, IF i = 0 THEN 1 ELSE IF i = 1 THEN 2 ELSE 4))]]

\* write_u8 that also stores the DSP address latch in the RAM underneath.
write_u8_latch_to_ram(self, address, value) ==
    IF address = 240 THEN set_test_reg(self, value)
    ELSE IF address = 241 THEN set_control_reg(self, value)
    ELSE IF address = 242
    THEN [self EXCEPT !.dsp_reg_address = value, !.ram[address] = value]
    ELSE IF address = 243
    THEN [self EXCEPT !.dsp = Dsp_set_register(self.dsp, self.dsp_reg_address, value)]
    ELSE IF address \in 250 .. 252
    THEN [self EXCEPT !.timers[address - 250] = set_target(@, value)]
    ELSE IF address \in 253 .. 255 THEN self
    ELSE [self EXCEPT !.ram[address] = value]

\* write_u8 whose "do nothing" arm is open-ended (0xfd.. for 0xfd..=0xff).
write_u8_open_range(self, address, value) ==
    IF address = 240 THEN set_test_reg(self, value)
    ELSE IF address = 241 THEN set_control_reg(self, value)
    ELSE IF address = 242 THEN [self EXCEPT !.dsp_reg_address = value]
    ELSE IF address = 243
    THEN [self EXCEPT !.dsp = Dsp_set_register(self.dsp, self.dsp_reg_address, value)]
    ELSE IF address \in 250 .. 252
    THEN [self EXCEPT !.timers[address - 250] = set_target(@, value)]
    ELSE IF address >= 253 THEN self
    ELSE [self EXCEPT !.ram[address] = value]

\* Apu::write_u8
write_u8(self, address, value) ==
    IF address = 240 THEN set_test_reg(self, value)
    ELSE IF address = 241 THEN set_control_reg(self, value)
    ELSE IF address = 242 THEN [self EXCEPT !.dsp_reg_address = value]
    ELSE IF address = 243
    THEN [self EXCEPT !.dsp = Dsp_set_register(self.dsp, self.dsp_reg_address, value)]
    ELSE IF address \in 250 .. 252
    THEN [self EXCEPT !.timers[address - 250] = set_target(@, value)]
    ELSE IF address \in 253 .. 255 THEN self
    ELSE [self EXCEPT !.ram[address] = value]

\* Apu::cpu_cycles_callback: the Dsp first (its mixer is not part of the bus
\* state), then the timers in order; a trap in one timer ends the call.
RECURSIVE timers_callback(_, _, _)
timers_callback(self, i, num_cycles) ==
    IF i > 2 THEN self
    ELSE LET r == Timer_cpu_cycles_callback(self.timers[i], num_cycles)
             s == [self EXCEPT !.timers[i] = r.timer]
         IN  IF r.panicked THEN [s EXCEPT !.panicked = TRUE]
             ELSE timers_callback(s, i + 1, num_cycles)

cpu_cycles_callback(self, num_cycles) == timers_callback(self, 0, num_cycles)

\* A snapshot (Spc) whose RAM, DSP registers and boot ROM hold `fill`, with
\* `control` at RAM[0xF1] and the DSP address 0x4C at RAM[0xF2].
SpcImage(fill, control) ==
    [ ram     |-> [c \in Cells |-> IF c = 241 THEN control
                                   ELSE IF c = 242 THEN 76 ELSE fill],
      regs    |-> [r \in DspRegs |-> fill],
      ipl_rom |-> [i \in 1 .. IPL_ROM_LEN |-> fill] ]

\* from_spc that does not apply the snapshot's control byte.
from_spc_no_control(spc) ==
    LET a1 == [Apu_new EXCEPT !.ram = spc.ram, !.ipl_rom = spc.ipl_rom]
        a2 == [a1 EXCEPT !.dsp = Dsp_set_state(spc)]
        a3 == [a2 EXCEPT !.timers =
                  [i \in 0 .. 2 |-> set_target(a2.timers[i], a2.ram[250 + i])]]
    IN  [a3 EXCEPT !.dsp_reg_address = a3.ram[242]]

\* Apu::from_spc
from_spc(spc) ==
    LET a1 == [Apu_new EXCEPT !.ram = spc.ram, !.ipl_rom = spc.ipl_rom]
        a2 == [a1 EXCEPT !.dsp = Dsp_set_state(spc)]
        a3 == [a2 EXCEPT !.timers =
                  [i \in 0 .. 2 |-> set_target(a2.timers[i], a2.ram[250 + i])]]
        a4 == set_control_reg(a3, a3.ram[241])
    IN  [a4 EXCEPT !.dsp_reg_address = a4.ram[242]]

----------------------------------------------------------------------------
(* The bus as a state machine                                              *)

\* The snapshots a behaviour may start from: everything 0x42, the control byte
\* at RAM[0xF1] 0xB7 (IPL ROM on, both mailbox clears, all three timers
\* started).
Snapshots == {SpcImage(66, 183)}

\* The Apu of the state is the Apu `a`.
IsApu(a) ==
    /\ ram = a.ram
    /\ ipl_rom = a.ipl_rom
    /\ timers = a.timers
    /\ is_ipl_rom_enabled = a.is_ipl_rom_enabled
    /\ dsp_reg_address = a.dsp_reg_address
    /\ dsp = a.dsp
    /\ panicked = a.panicked

\* The next Apu is the Apu `a`.
BecomesApu(a) ==
    /\ ram' = a.ram
    /\ ipl_rom' = a.ipl_rom
    /\ timers' = a.timers
    /\ is_ipl_rom_enabled' = a.is_ipl_rom_enabled
    /\ dsp_reg_address' = a.dsp_reg_address
    /\ dsp' = a.dsp
    /\ panicked' = a.panicked

\* The addresses whose last written value the history keeps: the control
\* register, the DSP address latch, mailbox byte 0 and the cells outside the
\* I/O page.
Tracked == {241, 242, 244} \cup {c \in Cells : c < 240 \/ c > 255}

\* The last value stored at each tracked address right after construction: a
\* cold reset leaves zero everywhere and has taken no control byte (-1); a
\* restore leaves the bytes of the snapshot.
ColdStored == [c \in Tracked |-> IF c = 241 THEN -1 ELSE 0]

SnapshotStored(spc) == [c \in Tracked |-> spc.ram[c]]

\* No file is loaded and nothing is rendered.
NoFile ==
    /\ file = << >>
    /\ loaded = << >>

NoRender ==
    /\ output_buffer = << >>
    /\ buffer = << >>
    /\ consumed = 0

\* The lone timers are not part of an Apu.
NoLoneTimer ==
    /\ timer = Timer_new(1)
    /\ fresh = Timer_new(1)
    /\ mark = Timer_new(1)
    /\ internal = 0
    /\ pc = "apu"

\* Construction: Apu::new(), or Apu::from_spc(spc) with one of Snapshots.  The
\* bus operations do no arithmetic, so the build profile is left at release.
Init ==
    /\ overflow_checks = FALSE
    /\ \/ /\ IsApu(Apu_new)
          /\ origin = "new"
          /\ written = ColdStored
       \/ \E spc \in Snapshots :
             /\ IsApu(from_spc(spc))
             /\ origin = "from_spc"
             /\ written = SnapshotStored(spc)
    /\ ret = 0
    /\ read_at = -1
    /\ elapsed = 0
    /\ NoLoneTimer
    /\ NoFile
    /\ NoRender

\* The bytes written to data cells, the control bytes (0x80: IPL ROM on,
\* 0x31: IPL ROM off, mailbox bytes 0 and 1 cleared, timer 0 started), the DSP
\* registers addressed and the timer targets.
DataVals == {0, 66}

CtrlVals == {128, 49}

LatchVals == {0, 76}

TargetVals == {3}

WriteVals(address) ==
    IF address = 240 THEN {10}
    ELSE IF address = 241 THEN CtrlVals
    ELSE IF address = 242 THEN LatchVals
    ELSE IF address \in 250 .. 252 THEN TargetVals
    ELSE DataVals

\* The addresses the bus is written at and read from.
WriteAddrs == {239, 240, 241, 242, 243, 244, 250, 253, 65471, 65472, 65535}

ReadAddrs == {239, 240, 241, 242, 243, 244, 250, 252, 253, 65471, 65472, 65535}

\* A write_u8(address, value) from the Smp.
WriteU8 ==
    /\ ~panicked
    /\ pc = "apu"
    /\ \E address \in WriteAddrs : \E value \in WriteVals(address) :
          /\ BecomesApu(write_u8(Self, address, value))
          /\ written' = IF address \in Tracked
                        THEN [written EXCEPT ![address] = value]
                        ELSE written
    /\ UNCHANGED <<overflow_checks, ret, read_at, origin, elapsed, lone_vars,
                 spc_vars, render_vars>>

\* A read_u8(address) from the Smp.
ReadU8 ==
    /\ ~panicked
    /\ pc = "apu"
    /\ \E address \in ReadAddrs :
          LET r == read_u8(Self, address)
          IN  /\ BecomesApu(r.apu)
              /\ ret' = r.ret
              /\ read_at' = address
    /\ UNCHANGED <<overflow_checks, written, origin, elapsed, lone_vars,
                 spc_vars, render_vars>>

Next == WriteU8 \/ ReadU8

Spec == Init /\ [][Next]_vars

----------------------------------------------------------------------------
(* Claims about the bus, checked under Spec                                *)

\* The bytes the claims are tried with.
ByteSamples == {0, 1, 66, 128, 255}

\* The cells outside the I/O page 0x00F0-0x00FF.
PlainCells == {c \in Cells : c < 240 \/ c > 255}

\* The modelled cells of the IPL window 0xFFC0-0xFFFF.
IplCells == {c \in Cells : c >= 65472}

\* C1: in every reachable state in which the Apu has not trapped, write_u8(a, v)
\* and read_u8(a) complete without trapping for every address and byte, the
\* test register 0x00F0 included.
C1_BusNeverTraps ==
    ~panicked =>
        \A a \in Cells :
            /\ ~read_u8(Self, a).apu.panicked
            /\ \A v \in ByteSamples : ~write_u8(Self, a, v).panicked

\* C2: in a state in which the Apu has not trapped, for an address a outside
\* 0x00F0-0x00FF that the enabled IPL ROM does not shadow, write_u8(a, v)
\* followed by read_u8(a) returns v, and the write changes no other RAM byte.
C2_WriteThenRead ==
    \A a \in PlainCells : \A v \in ByteSamples :
        (~panicked /\ ~(a >= 65472 /\ is_ipl_rom_enabled)) =>
            LET w == write_u8(Self, a, v)
            IN  /\ ~w.panicked
                /\ read_u8(w, a).ret = v
                /\ \A c \in Cells \ {a} : w.ram[c] = ram[c]

\* A read of 0xFFC0 has returned the 0x42 written there, the IPL ROM being off.
C2_Witness ==
    /\ read_at = 65472
    /\ ret = 66
    /\ written[65472] = 66
    /\ ~is_ipl_rom_enabled
    /\ origin = "new"

\* C3: the registers 0x00F0, 0x00F1 and 0x00FA-0x00FC read as 0 in every
\* reachable state, and right after a write of any byte to 0x00F1 or
\* 0x00FA-0x00FC: they show neither the latched state nor the RAM underneath.
C3_WriteOnlyReadZero ==
    /\ \A a \in {240, 241, 250, 251, 252} : read_u8(Self, a).ret = 0
    /\ \A a \in {241, 250, 251, 252} : \A v \in ByteSamples :
           read_u8(write_u8(Self, a, v), a).ret = 0

\* A read of the control register has returned 0 although a control byte is
\* latched, a timer target is set and the RAM underneath holds the snapshot's
\* control byte.
C3_Witness ==
    /\ read_at = 241
    /\ ret = 0
    /\ written[241] = 128
    /\ is_ipl_rom_enabled
    /\ timers[0].target = Some(3)
    /\ ram[241] = 183
    /\ ram[250] = 66

\* C4: a read of 0x00F2 returns the last value written there (0 after a cold
\* reset); after write_u8(0x00F2, a); write_u8(0x00F3, v) the Dsp register a
\* holds v and a read of 0x00F3 returns v; neither write changes RAM[0xF2] or
\* RAM[0xF3].
C4_DspWindow ==
    /\ read_u8(Self, 242).ret = written[242]
    /\ \A a \in DspRegs : \A v \in ByteSamples :
           LET s1 == write_u8(Self, 242, a)
               s2 == write_u8(s1, 243, v)
           IN  /\ read_u8(s1, 242).ret = a
               /\ Dsp_get_register(s2.dsp, a) = v
               /\ read_u8(s2, 243).ret = v
               /\ s1.ram = ram
               /\ s2.ram = ram

\* After a cold reset the latch was set to 0x4C and 0x42 written through the
\* window; the read of 0x00F3 has returned it.
C4_Witness ==
    /\ origin = "new"
    /\ read_at = 243
    /\ ret = 66
    /\ written[242] = 76
    /\ dsp_reg_address = 76
    /\ dsp[76] = 66
    /\ ram[242] = 0
    /\ ram[243] = 0

\* The IPL ROM is enabled after a cold reset and after a control byte with bit
\* 7 set (a restore applies the snapshot's control byte).
IplExpected ==
    IF written[241] = -1 THEN TRUE ELSE BitSet(written[241], 128)

\* C6: a read in 0xFFC0-0xFFFF returns the boot ROM byte while the IPL ROM is
\* enabled (cold reset, or last control byte with bit 7 set) and otherwise the
\* last value written there (0 if none since the cold reset); a write there
\* lands in RAM even while the ROM is enabled and shows once a control byte
\* with bit 7 clear is written.
C6_IplShadowsReadsOnly ==
    /\ is_ipl_rom_enabled = IplExpected
    /\ origin = "new" => ipl_rom = DEFAULT_IPL_ROM
    /\ \A a \in IplCells :
           /\ read_u8(Self, a).ret =
                  IF IplExpected THEN ipl_rom[(a - 65472) + 1] ELSE written[a]
           /\ \A v \in ByteSamples :
                  LET w == write_u8(Self, a, v)
                  IN  /\ w.ram[a] = v
                      /\ w.is_ipl_rom_enabled = is_ipl_rom_enabled
                      /\ \A c \in {0, 49, 127} :
                             read_u8(write_u8(w, 241, c), a).ret = v

\* 0x42 was written to 0xFFC0, the control byte 0x31 has switched the ROM off,
\* and the read of 0xFFC0 has returned the 0x42.
C6_Witness ==
    /\ origin = "new"
    /\ written[241] = 49
    /\ ~is_ipl_rom_enabled
    /\ written[65472] = 66
    /\ read_at = 65472
    /\ ret = 66
    /\ ram[65535] = 0

\* The ROM is on after a cold reset and the read of 0xFFFF has returned its
\* last byte, with 0x42 in the RAM underneath.
C6_WitnessRom ==
    /\ origin = "new"
    /\ is_ipl_rom_enabled
    /\ written[65535] = 66
    /\ ram[65535] = 66
    /\ read_at = 65535
    /\ ret = 255

----------------------------------------------------------------------------
(* The timers on the bus, with time passing: SpecCounters                  *)

\* The cycle counts the Smp reports: 257 cycles give timers 0 and 1 their
\* first internal tick, 513 cycles give timer 2 its sixteenth.
CycleSteps == {257, 513}

\* The number of cycle callbacks of a behaviour.
MaxCallbacks == 2

\* The timer registers written (control: all timers stopped or all started;
\* the three targets; the read-only counters) and read.
CounterWrites ==
    ({241} \X {0, 7}) \cup ({250, 251, 252} \X {1}) \cup ({253, 254, 255} \X {255})

CounterReads == {253, 254, 255}

InitCounters ==
    /\ overflow_checks \in BOOLEAN
    /\ IsApu(Apu_new)
    /\ origin = "new"
    /\ written = ColdStored
    /\ ret = 0
    /\ read_at = -1
    /\ elapsed = 0
    /\ NoLoneTimer
    /\ NoFile
    /\ NoRender

\* A write_u8 to a timer register.
WriteTimerReg ==
    /\ ~panicked
    /\ \E w \in CounterWrites :
          /\ BecomesApu(write_u8(Self, w[1], w[2]))
          /\ written' = IF w[1] \in Tracked
                        THEN [written EXCEPT ![w[1]] = w[2]]
                        ELSE written
    /\ UNCHANGED <<overflow_checks, ret, read_at, origin, elapsed, lone_vars,
                 spc_vars, render_vars>>

\* A read_u8 of a counter register.
ReadCounterReg ==
    /\ ~panicked
    /\ \E address \in CounterReads :
          LET r == read_u8(Self, address)
          IN  /\ BecomesApu(r.apu)
              /\ ret' = r.ret
              /\ read_at' = address
    /\ UNCHANGED <<overflow_checks, written, origin, elapsed, lone_vars,
                 spc_vars, render_vars>>

\* The Smp reports num_cycles consumed cycles.
CpuCyclesCallback ==
    /\ ~panicked
    /\ elapsed < MaxCallbacks
    /\ \E num_cycles \in CycleSteps :
          BecomesApu(cpu_cycles_callback(Self, num_cycles))
    /\ elapsed' = elapsed + 1
    /\ UNCHANGED <<overflow_checks, ret, read_at, written, origin, lone_vars,
                 spc_vars, render_vars>>

NextCounters == WriteTimerReg \/ ReadCounterReg \/ CpuCyclesCallback

SpecCounters == InitCounters /\ [][NextCounters]_vars

----------------------------------------------------------------------------
(* A Timer on its own, driven through its methods in any order and then    *)
(* restarted beside a fresh Timer: SpecTimer                               *)

\* The resolutions a lone Timer is constructed with: 1 .. MaxResolution.
MaxResolution == 2

\* The targets set on the lone Timer in SpecTimer.
TimerTargets == {2}

\* The number of tick() calls made after the restart.
MaxLock == 6

\* pc while the methods are called in any order: the last method called.
FreeOps == {"new", "tick", "set_start_stop_bit", "set_target", "read_counter"}

\* The byte that set_target turns into the target `target`.
TargetByte(target) == IF target = None THEN 0 ELSE target[1]

\* The bus is not part of a lone Timer: a cold Apu that nothing touches.
NoApu ==
    /\ IsApu(Apu_new)
    /\ origin = "new"
    /\ written = ColdStored
    /\ read_at = -1

InitTimer ==
    /\ overflow_checks \in BOOLEAN
    /\ \E resolution \in 1 .. MaxResolution :
          /\ timer = Timer_new(resolution)
          /\ fresh = Timer_new(resolution)
          /\ mark = Timer_new(resolution)
    /\ pc = "new"
    /\ ret = 0
    /\ elapsed = 0
    /\ internal = 0
    /\ NoApu
    /\ NoFile
    /\ NoRender

\* timer.tick()
Tick ==
    /\ pc \in FreeOps
    /\ ~panicked
    /\ LET r == tick(timer)
       IN  /\ timer' = r.timer
           /\ panicked' = r.panicked
    /\ mark' = timer
    /\ pc' = "tick"
    /\ UNCHANGED <<apu_vars, spc_vars, render_vars, overflow_checks, ret, read_at, elapsed, internal, fresh>>

\* timer.set_start_stop_bit(value)
SetStartStopBit ==
    /\ pc \in FreeOps
    /\ ~panicked
    /\ \E value \in BOOLEAN : timer' = set_start_stop_bit(timer, value)
    /\ mark' = timer
    /\ pc' = "set_start_stop_bit"
    /\ UNCHANGED <<apu_vars, spc_vars, render_vars, panicked, overflow_checks, ret, read_at, elapsed,
                   internal, fresh>>

\* timer.set_target(value)
SetTarget ==
    /\ pc \in FreeOps
    /\ ~panicked
    /\ \E value \in TimerTargets : timer' = set_target(timer, value)
    /\ mark' = timer
    /\ pc' = "set_target"
    /\ UNCHANGED <<apu_vars, spc_vars, render_vars, panicked, overflow_checks, ret, read_at, elapsed,
                   internal, fresh>>

\* timer.read_counter()
ReadCounter ==
    /\ pc \in FreeOps
    /\ ~panicked
    /\ LET r == read_counter(timer)
       IN  /\ timer' = r.timer
           /\ ret' = r.ret
    /\ mark' = timer
    /\ pc' = "read_counter"
    /\ UNCHANGED <<apu_vars, spc_vars, render_vars, panicked, overflow_checks, read_at, elapsed,
                   internal, fresh>>

\* The stopped timer is set running; beside it a Timer is constructed with the
\* same resolution, given the same target and set running.
Restart ==
    /\ pc \in FreeOps
    /\ ~panicked
    /\ ~timer.is_running
    /\ timer' = set_start_stop_bit(timer, TRUE)
    /\ fresh' = set_start_stop_bit(
                    set_target(Timer_new(timer.resolution), TargetByte(timer.target)),
                    TRUE)
    /\ mark' = timer
    /\ pc' = "restart"
    /\ elapsed' = 0
    /\ UNCHANGED <<apu_vars, spc_vars, render_vars, panicked, overflow_checks, ret, read_at, internal>>

\* tick() on both timers.
LockTick ==
    /\ pc \in {"restart", "lockstep"}
    /\ ~panicked
    /\ elapsed < MaxLock
    /\ LET r == tick(timer)
           f == tick(fresh)
       IN  /\ timer' = r.timer
           /\ fresh' = f.timer
           /\ panicked' = (r.panicked \/ f.panicked)
    /\ elapsed' = elapsed + 1
    /\ pc' = "lockstep"
    /\ UNCHANGED <<apu_vars, spc_vars, render_vars, overflow_checks, ret, read_at, internal, mark>>

NextTimer ==
    Tick \/ SetStartStopBit \/ SetTarget \/ ReadCounter \/ Restart \/ LockTick

SpecTimer == InitTimer /\ [][NextTimer]_vars

----------------------------------------------------------------------------
(* A new Timer that is given a target (or none), set running, ticked and   *)
(* then read twice: SpecRun                                                *)

\* The targets given to the new Timer.
RunTargets == {0, 1, 3}

\* The number of tick() calls: 513 calls make a Timer of resolution 2 emit
\* its 256th internal tick.
MaxTicks == 520

InitRun ==
    /\ overflow_checks \in BOOLEAN
    /\ \E resolution \in 1 .. MaxResolution :
          /\ timer = Timer_new(resolution)
          /\ fresh = Timer_new(resolution)
          /\ mark = Timer_new(resolution)
    /\ pc = "new"
    /\ ret = 0
    /\ elapsed = 0
    /\ internal = 0
    /\ NoApu
    /\ NoFile
    /\ NoRender

\* timer.set_target(value), on the new Timer.
RunSetTarget ==
    /\ pc = "new"
    /\ \E value \in RunTargets : timer' = set_target(timer, value)
    /\ pc' = "target"
    /\ UNCHANGED <<apu_vars, spc_vars, render_vars, panicked, overflow_checks, ret, read_at, elapsed,
                   internal, fresh, mark>>

\* timer.set_start_stop_bit(true), with the target set or never set.
RunStart ==
    /\ pc \in {"new", "target"}
    /\ timer' = set_start_stop_bit(timer, TRUE)
    /\ pc' = "running"
    /\ UNCHANGED <<apu_vars, spc_vars, render_vars, panicked, overflow_checks, ret, read_at, elapsed,
                   internal, fresh, mark>>

\* timer.tick(); `internal` counts the calls in which the accumulator passes
\* the resolution.
RunTick ==
    /\ pc = "running"
    /\ ~panicked
    /\ elapsed < MaxTicks
    /\ LET r == tick(timer)
       IN  /\ timer' = r.timer
           /\ panicked' = r.panicked
    /\ elapsed' = elapsed + 1
    /\ internal' = IF timer.ticks + 1 > timer.resolution
                   THEN internal + 1
                   ELSE internal
    /\ UNCHANGED <<apu_vars, spc_vars, render_vars, overflow_checks, ret, read_at, fresh, mark, pc>>

\* timer.read_counter(), a first and a second time.
RunRead ==
    /\ pc \in {"running", "read1"}
    /\ ~panicked
    /\ LET r == read_counter(timer)
       IN  /\ timer' = r.timer
           /\ ret' = r.ret
    /\ pc' = IF pc = "running" THEN "read1" ELSE "read2"
    /\ UNCHANGED <<apu_vars, spc_vars, render_vars, panicked, overflow_checks, read_at, elapsed,
                   internal, fresh, mark>>

NextRun == RunSetTarget \/ RunStart \/ RunTick \/ RunRead

SpecRun == InitRun /\ [][NextRun]_vars

----------------------------------------------------------------------------
(* Claims about the timers                                                 *)

\* C5 as stated: a read of 0x00FD + i returns 0 only when timer i's
\* counter_high is zero and otherwise the low 4 bits of counter_high; a second
\* consecutive read returns 0; writes to 0x00FD-0x00FF change no read.
C5_ZeroOnlyWhenZero ==
    \A i \in 0 .. 2 :
        LET r == read_u8(Self, 253 + i)
        IN  /\ r.ret = 0 => timers[i].counter_high = 0
            /\ timers[i].counter_high # 0 => r.ret = timers[i].counter_high % 16
            /\ read_u8(r.apu, 253 + i).ret = 0
            /\ \A a \in 253 .. 255 : \A v \in ByteSamples :
                   read_u8(write_u8(Self, a, v), 253 + i).ret = r.ret

\* C5, amended: a read of 0x00FD + i returns the low 4 bits of timer i's
\* counter_high (0 whenever counter_high is a multiple of 16, zero or not) and
\* clears counter_high, so that a second consecutive read returns 0; a write
\* to 0x00FD-0x00FF changes nothing, and so no read.
C5_CounterRead ==
    \A i \in 0 .. 2 :
        LET r == read_u8(Self, 253 + i)
        IN  /\ r.ret = timers[i].counter_high % 16
            /\ r.apu.timers[i].counter_high = 0
            /\ read_u8(r.apu, 253 + i).ret = 0
            /\ \A a \in 253 .. 255 : \A v \in ByteSamples :
                   /\ write_u8(Self, a, v) = Self
                   /\ read_u8(write_u8(Self, a, v), 253 + i).ret = r.ret

\* Timer 2 counted 24 matches in two callbacks and the read of 0x00FF has
\* returned 8 and cleared the counter, while timer 0 still holds its count.
C5_Witness ==
    /\ read_at = 255
    /\ ret = 8
    /\ elapsed = 2
    /\ timers[2].counter_high = 0
    /\ timers[0].counter_high = 3

\* C7 as stated: no call other than read_counter makes counter_high smaller.
C7_NeverDecreases ==
    (pc \in FreeOps /\ pc # "read_counter") =>
        timer.counter_high >= mark.counter_high

\* C7, amended: a call other than read_counter leaves counter_high as it is or
\* adds one to it modulo 256: between two counter reads counter_high only
\* grows until the 256th target match, where it goes from 255 back to 0 (or,
\* in a build with overflow checks, the tick panics).
C7_GrowsModulo256 ==
    (pc \in FreeOps /\ pc # "read_counter") =>
        /\ timer.counter_high \in
               {mark.counter_high, (mark.counter_high + 1) % 256}
        /\ timer.counter_high < mark.counter_high =>
               /\ pc = "tick"
               /\ mark.counter_high = 255
               /\ ~overflow_checks
        /\ panicked => timer.counter_high = mark.counter_high

\* A tick has taken counter_high from 255 to 0.
C7_Witness ==
    /\ pc = "tick"
    /\ mark.counter_high = 255
    /\ timer.counter_high = 0
    /\ timer.is_running

\* C8 as stated: after the restart the timer and the fresh timer agree on
\* counter_low, on counter_high and on what read_counter returns, after every
\* number of ticks.
C8_SameTrajectory ==
    pc \in {"restart", "lockstep"} =>
        /\ timer.counter_low = fresh.counter_low
        /\ timer.counter_high = fresh.counter_high
        /\ read_counter(timer).ret = read_counter(fresh).ret

\* C8, amended: after the restart, and until a tick panics, the timer and the
\* fresh timer agree on the accumulator, counter_low, the target and the
\* running flag after every number of ticks, and the timer's counter_high is
\* the fresh timer's plus the counter_high the timer held at the restart,
\* modulo 256 (set_start_stop_bit does not clear counter_high); so they agree
\* on counter_high and on read_counter() when that was 0.
C8_RestartOffset ==
    (pc \in {"restart", "lockstep"} /\ ~panicked) =>
        /\ timer.ticks = fresh.ticks
        /\ timer.counter_low = fresh.counter_low
        /\ timer.target = fresh.target
        /\ timer.is_running /\ fresh.is_running
        /\ timer.counter_high = (fresh.counter_high + mark.counter_high) % 256
        /\ mark.counter_high = 0 =>
               /\ timer = fresh
               /\ read_counter(timer) = read_counter(fresh)

\* A timer stopped with counter_low 1 and counter_high 5 was restarted and has
\* counted three more matches beside the fresh timer.
C8_Witness ==
    /\ pc = "lockstep"
    /\ elapsed = MaxLock
    /\ mark.counter_low = 1
    /\ mark.counter_high = 5
    /\ fresh.counter_high >= 2
    /\ timer.counter_high = fresh.counter_high + 5

\* C9: for a new Timer of resolution 1 with a non-zero target t, set running
\* and ticked k times, k internal ticks have occurred, read_counter() returns
\* floor(k / t) mod 16 and a second read returns 0.
C9_TargetWrap ==
    (timer.resolution = 1 /\ timer.target # None /\ ~panicked) =>
        /\ pc = "running" => internal = elapsed
        /\ pc = "read1" => ret = (elapsed \div timer.target[1]) % 16
        /\ pc = "read2" => ret = 0

\* C10: with target 0 (never set, or set_target(0)) a running timer counts
\* modulo 256: after n internal ticks counter_low is n mod 256 and
\* counter_high is floor(n / 256), and no tick traps.
C10_TargetZeroIs256 ==
    (pc = "running" /\ timer.target = None) =>
        /\ ~panicked
        /\ timer.counter_low = internal % 256
        /\ timer.counter_high = (internal \div 256) % 256

----------------------------------------------------------------------------
(* Spc::load (src/src/spc.rs)                                              *)

\* b"SNES-SPC700 Sound File Data v0.30"
SPC_HEADER ==
    <<  83,  78,  69,  83,  45,  83,  80,  67,  55,  48,  48,
        32,  83, 111, 117, 110, 100,  32,  70, 105, 108, 101,
        32,  68,  97, 116,  97,  32, 118,  48,  46,  51,  48 >>

\* A file is its length and the bytes the loader looks at: the 33 header
\* bytes, the little-endian word at 0x21, the marker at 0x23, the minor
\* version and the Smp registers at 0x24 .. 0x2B, of the ID666 region the byte
\* filling the date field 0x9E .. 0xA8, the byte filling the length field
\* 0xA9 .. 0xAB and the emulator byte at 0xD1, then the RAM at 0x100 (on
\* Cells), the DSP registers at 0x10100 (on DspRegs) and the boot ROM at
\* 0x101C0.  Bytes at or beyond `len` are not there to be read.

\* BinaryReader: a read of n bytes at offset pos succeeds when the file has
\* them, and fails with the I/O error of a short read otherwise.
ReadOk(f, pos, n) == pos + n <= f.len

\* The outcomes of Spc::load: Ok(spc), or Err(..) with no Spc (an I/O error
\* passed on by try!, or the "Unrecognized SPC header" error of bad_header!),
\* or a panic; `at` is the step that ended the load.
Loaded(spc) == [kind |-> "ok", at |-> "end", spc |-> Some(spc)]

Failed(kind, at) == [kind |-> kind, at |-> at, spc |-> None]

\* c == '/' || c.is_alphabetic() || c.is_digit(10), for a char below 256.
IsTextByte(b) ==
    \/ b = 47
    \/ b \in 48 .. 57
    \/ b \in 65 .. 90
    \/ b \in 97 .. 122
    \/ b \in {170, 181, 186}
    \/ b \in (192 .. 255) \ {215, 247}

\* Id666::is_text_region on `len` bytes at `start`, all of them `fill`: "false"
\* at the first byte that is not text, "true" after `len` text bytes, "io" on
\* a short read.
Id666_is_text_region(f, start, len, fill) ==
    IF IsTextByte(fill)
    THEN IF ReadOk(f, start, len) THEN "true" ELSE "io"
    ELSE IF ReadOk(f, start, 1) THEN "false" ELSE "io"

\* Id666::load, entered at offset 0x2E: "io" or "err" for Err(..), "panic" for
\* unimplemented!(); no path returns Ok.
Id666_load(f) ==
    IF ~ReadOk(f, 46, 112) THEN "io"
    ELSE LET date == Id666_is_text_region(f, 158, 11, f.date)
             is_text_format ==
                 IF date = "true"
                 THEN Id666_is_text_region(f, 169, 3, f.length)
                 ELSE date
         IN  IF is_text_format = "io" THEN "io"
             ELSE IF is_text_format = "true" THEN "panic"
             ELSE IF ~ReadOk(f, 158, 4) THEN "io"
             ELSE IF ~ReadOk(f, 169, 7) THEN "io"
             ELSE IF ~ReadOk(f, 176, 32) THEN "io"
             ELSE IF ~ReadOk(f, 208, 1) THEN "io"
             ELSE IF ~ReadOk(f, 209, 1) THEN "io"
             ELSE IF f.emulator \in 48 .. 57 THEN "panic"
             ELSE "err"

\* Spc::load without the check of the word at 0x21.
load_no_magic(f) ==
    IF ~f.exists THEN Failed("io", "open")
    ELSE IF ~ReadOk(f, 0, 33) THEN Failed("io", "header")
    ELSE IF f.header # SPC_HEADER THEN Failed("invalid_header", "header")
    ELSE IF ~ReadOk(f, 33, 2) THEN Failed("io", "magic")
    ELSE IF FALSE THEN Failed("invalid_header", "magic")
    ELSE IF ~ReadOk(f, 35, 1) THEN Failed("io", "marker")
    ELSE IF f.marker \notin {26, 27} THEN Failed("invalid_header", "marker")
    ELSE IF ~ReadOk(f, 36, 8) THEN Failed("io", "registers")
    ELSE LET tag == IF f.marker = 26 THEN Id666_load(f) ELSE "none"
         IN  IF tag = "panic" THEN Failed("panic", "id666")
             ELSE IF tag \in {"io", "err"} THEN Failed("invalid_header", "id666")
             ELSE IF ~ReadOk(f, 256, 65536) THEN Failed("io", "ram")
             ELSE IF ~ReadOk(f, 65792, 128) THEN Failed("io", "regs")
             ELSE IF ~ReadOk(f, 65984, 64) THEN Failed("io", "ipl_rom")
             ELSE Loaded([ header        |-> f.header,
                           version_minor |-> f.version_minor,
                           pc            |-> f.pc,
                           a             |-> f.a,
                           x             |-> f.x,
                           y             |-> f.y,
                           psw           |-> f.psw,
                           sp            |-> f.sp,
                           id666_tag     |-> None,
                           ram           |-> f.ram,
                           regs          |-> f.regs,
                           ipl_rom       |-> f.ipl_rom ])

\* Spc::load
load(f) ==
    IF ~f.exists THEN Failed("io", "open")
    ELSE IF ~ReadOk(f, 0, 33) THEN Failed("io", "header")
    ELSE IF f.header # SPC_HEADER THEN Failed("invalid_header", "header")
    ELSE IF ~ReadOk(f, 33, 2) THEN Failed("io", "magic")
    ELSE IF f.magic # 6682 THEN Failed("invalid_header", "magic")
    ELSE IF ~ReadOk(f, 35, 1) THEN Failed("io", "marker")
    ELSE IF f.marker \notin {26, 27} THEN Failed("invalid_header", "marker")
    ELSE IF ~ReadOk(f, 36, 8) THEN Failed("io", "registers")
    ELSE LET tag == IF f.marker = 26 THEN Id666_load(f) ELSE "none"
         IN  IF tag = "panic" THEN Failed("panic", "id666")
             ELSE IF tag \in {"io", "err"} THEN Failed("invalid_header", "id666")
             ELSE IF ~ReadOk(f, 256, 65536) THEN Failed("io", "ram")
             ELSE IF ~ReadOk(f, 65792, 128) THEN Failed("io", "regs")
             ELSE IF ~ReadOk(f, 65984, 64) THEN Failed("io", "ipl_rom")
             ELSE Loaded([ header        |-> f.header,
                           version_minor |-> f.version_minor,
                           pc            |-> f.pc,
                           a             |-> f.a,
                           x             |-> f.x,
                           y             |-> f.y,
                           psw           |-> f.psw,
                           sp            |-> f.sp,
                           id666_tag     |-> None,
                           ram           |-> f.ram,
                           regs          |-> f.regs,
                           ipl_rom       |-> f.ipl_rom ])

----------------------------------------------------------------------------
(* Claims about the control register and the snapshot restore              *)

\* The control bytes the claims are tried with: no bit, each mailbox-clear bit
\* alone and both, the IPL bit, 0x31, every bit but 0x10, every bit but 0x20,
\* every bit, and each timer bit alone and in pairs.
ControlSamples == {0, 16, 32, 48, 128, 49, 239, 223, 255, 1, 2, 4, 3, 5, 6, 7}

\* The mailbox primed through the bus: 0xAA, 0xBB, 0xCC, 0xDD (or m) at
\* 0xF4 .. 0xF7.
Primed(self, m) ==
    write_u8(write_u8(write_u8(write_u8(self, 244, m), 245, 187), 246, 204), 247, m)

\* C11: write_u8(0x00F1, v) zeroes RAM[0xF4] and RAM[0xF5] when v & 0x10 is
\* set and RAM[0xF6] and RAM[0xF7] when v & 0x20 is set; with the bit clear the
\* bytes keep their values; no other RAM byte, RAM[0xF1] included, changes.
C11_MailboxClear ==
    ~panicked =>
        \A v \in ControlSamples : \A m \in {0, 170, 221} :
            LET p == Primed(Self, m)
                w == write_u8(p, 241, v)
            IN  /\ ~w.panicked
                /\ \A c \in {244, 245} :
                       w.ram[c] = IF BitSet(v, 16) THEN 0 ELSE p.ram[c]
                /\ \A c \in {246, 247} :
                       w.ram[c] = IF BitSet(v, 32) THEN 0 ELSE p.ram[c]
                /\ \A c \in Cells \ (244 .. 247) : w.ram[c] = p.ram[c]
                /\ p.ram[245] = 187 /\ p.ram[246] = 204

\* After a cold reset 0x42 was written to mailbox byte 0 and the control byte
\* 0x31 has cleared it; RAM[0xF1] is still 0.
C11_Witness ==
    /\ origin = "new"
    /\ written[244] = 66
    /\ written[241] = 49
    /\ ram[244] = 0
    /\ ram[241] = 0

\* A snapshot (Spc) with `control` at RAM[0xF1], `latch` at RAM[0xF2], the three
\* bytes of `targets` at RAM[0xFA .. 0xFC] and `fill` everywhere else, in the
\* DSP registers and in the boot ROM.
RestoreImage(fill, control, latch, targets) ==
    [ ram     |-> [c \in Cells |-> IF c = 241 THEN control
                                   ELSE IF c = 242 THEN latch
                                   ELSE IF c \in 250 .. 252 THEN targets[(c - 250) + 1]
                                   ELSE fill],
      regs    |-> [r \in DspRegs |-> fill],
      ipl_rom |-> [i \in 1 .. IPL_ROM_LEN |-> fill] ]

\* The snapshots restored in SpecRestore: the control bytes 0x00, 0x80, 0x10,
\* 0x20, 0x05, 0x32 and 0xB7, the latch 0x42 or 0x4C, the targets all 0x42 or
\* 0, 1 and 255.
RestoreSnapshots ==
    { RestoreImage(66, control, latch, targets) :
        control \in {0, 128, 16, 32, 5, 50, 183},
        latch \in {66, 76},
        targets \in {<<66, 66, 66>>, <<0, 1, 255>>} }

\* Construction by Apu::from_spc(spc); the history keeps the snapshot's RAM.
InitRestore ==
    /\ overflow_checks = FALSE
    /\ \E spc \in RestoreSnapshots :
          /\ IsApu(from_spc(spc))
          /\ written = spc.ram
    /\ origin = "from_spc"
    /\ ret = 0
    /\ read_at = -1
    /\ elapsed = 0
    /\ NoLoneTimer
    /\ NoFile
    /\ NoRender

\* The restored Apu is read, and time passes.
NextRestore == ReadU8 \/ CpuCyclesCallback

SpecRestore == InitRestore /\ [][NextRestore]_vars

\* The bit of the control byte that starts timer i.
TimerBit(i) == IF i = 0 THEN 1 ELSE IF i = 1 THEN 2 ELSE 4

\* C12: the Apu built by from_spc has timer i's target equal to the snapshot's
\* RAM[0xFA + i] (0 for no target), the IPL ROM enabled iff bit 7 of the
\* snapshot's RAM[0xF1], timer i running iff bit i of it, dsp_reg_address equal
\* to RAM[0xF2], and the snapshot's RAM except that the mailbox bytes are zero
\* where bit 0x10 / 0x20 of RAM[0xF1] is set; with RAM all 0x42 and RAM[0xF1]
\* zero, read_u8(0xFFC0) returns 0x42.
C12_SnapshotRestore ==
    /\ ~panicked
    /\ \A i \in 0 .. 2 :
           /\ TargetByte(timers[i].target) = written[250 + i]
           /\ timers[i].is_running = BitSet(written[241], TimerBit(i))
    /\ is_ipl_rom_enabled = BitSet(written[241], 128)
    /\ dsp_reg_address = written[242]
    /\ \A c \in Cells :
           ram[c] = IF c \in {244, 245} /\ BitSet(written[241], 16) THEN 0
                    ELSE IF c \in {246, 247} /\ BitSet(written[241], 32) THEN 0
                    ELSE written[c]
    /\ (written[241] = 0 /\ \A c \in Cells \ {241} : written[c] = 66) =>
           read_u8(Self, 65472).ret = 66

\* The snapshot with RAM all 0x42 and control byte 0 was restored and the
\* read of 0xFFC0 has returned 0x42.
C12_Witness ==
    /\ origin = "from_spc"
    /\ written[241] = 0
    /\ \A c \in Cells \ {241} : written[c] = 66
    /\ read_at = 65472
    /\ ret = 66
    /\ timers[0].target = Some(66)
    /\ ~timers[0].is_running
    /\ ram[244] = 66

----------------------------------------------------------------------------
(* A file is loaded, and the Apu restored from it: SpecLoad                *)

\* The header with its first or its last byte changed.
BadFirstHeader == [SPC_HEADER EXCEPT ![1] = 115]

BadLastHeader == [SPC_HEADER EXCEPT ![33] = 49]

\* The lengths of the files: empty; cut in the magic word, before the
\* marker, in the Smp registers, in the ID666 strings, in the ID666 numbers,
\* at the start of the RAM, in the RAM, at the start of the DSP registers, at
\* their end, in the boot ROM; complete (0x10200); with a trailing byte.
FileLens == {0, 34, 35, 40, 100, 200, 256, 1000, 65792, 65920, 65985, 66048, 66049}

\* A file of length len, its ID666 date and length fields filled with `date`.
SpcFile(header, magic, marker, len, date, emulator) ==
    [ exists        |-> TRUE,
      len           |-> len,
      header        |-> header,
      magic         |-> magic,
      marker        |-> marker,
      version_minor |-> 30,
      pc            |-> 1024,
      a             |-> 1,
      x             |-> 2,
      y             |-> 3,
      psw           |-> 4,
      sp            |-> 239,
      date          |-> date,
      length        |-> date,
      emulator      |-> emulator,
      ram           |-> RestoreImage(66, 0, 66, <<66, 66, 66>>).ram,
      regs          |-> RestoreImage(66, 0, 66, <<66, 66, 66>>).regs,
      ipl_rom       |-> RestoreImage(66, 0, 66, <<66, 66, 66>>).ipl_rom ]

\* The files loaded: the three headers, the magic 0x1A1A or 0x1A1B, the
\* markers 0x1A, 0x1B and 0x1C, binary (0) or text ('0') ID666 fields, the
\* emulator byte 0 or '1'; and a path with no file.
FileSamples ==
    { SpcFile(header, magic, marker, len, date, emulator) :
        header \in {SPC_HEADER, BadFirstHeader, BadLastHeader},
        magic \in {6682, 6683},
        marker \in {26, 27, 28},
        len \in FileLens,
        date \in {0, 48},
        emulator \in {0, 49} }
    \cup { [SpcFile(SPC_HEADER, 6682, 27, 0, 0, 0) EXCEPT !.exists = FALSE] }

InitLoad ==
    /\ overflow_checks = FALSE
    /\ file \in FileSamples
    /\ loaded = << >>
    /\ pc = "file"
    /\ timer = Timer_new(1)
    /\ fresh = Timer_new(1)
    /\ mark = Timer_new(1)
    /\ internal = 0
    /\ ret = 0
    /\ elapsed = 0
    /\ NoApu
    /\ NoRender

\* Spc::load(path)
Load ==
    /\ pc = "file"
    /\ loaded' = load(file)
    /\ panicked' = (load(file).kind = "panic")
    /\ pc' = "loaded"
    /\ UNCHANGED <<ram, ipl_rom, timers, is_ipl_rom_enabled, dsp_reg_address, dsp,
                   written, origin, overflow_checks, ret, read_at, elapsed,
                   internal, timer, fresh, mark, file, render_vars>>

\* Apu::from_spc(&spc) with the Spc that was loaded.
FromLoaded ==
    /\ pc = "loaded"
    /\ loaded.kind = "ok"
    /\ BecomesApu(from_spc(loaded.spc[1]))
    /\ written' = SnapshotStored(loaded.spc[1])
    /\ origin' = "from_spc"
    /\ pc' = "apu"
    /\ UNCHANGED <<overflow_checks, ret, read_at, elapsed, internal, timer, fresh,
                   mark, spc_vars, render_vars>>

NextLoad == Load \/ FromLoaded

SpecLoad == InitLoad /\ [][NextLoad]_vars

\* C13: a file whose header string differs from SPC_HEADER, whose word at 0x21
\* is not 0x1A1A or whose marker at 0x23 is neither 0x1A nor 0x1B yields the
\* invalid-header error; a load that ends at the read of the RAM, the DSP
\* registers or the boot ROM ends in an I/O error, which is what a truncated
\* file with marker 0x1B gets; and a load that fails produces no Spc.
C13_LoadFailsFast ==
    (pc = "loaded" /\ file.exists) =>
        /\ (ReadOk(file, 0, 33) /\ file.header # SPC_HEADER) =>
               loaded.kind = "invalid_header"
        /\ (ReadOk(file, 33, 2) /\ file.magic # 6682) =>
               loaded.kind = "invalid_header"
        /\ (ReadOk(file, 35, 1) /\ file.marker \notin {26, 27}) =>
               loaded.kind = "invalid_header"
        /\ loaded.at \in {"ram", "regs", "ipl_rom"} => loaded.kind = "io"
        /\ ( /\ file.header = SPC_HEADER
             /\ file.magic = 6682
             /\ file.marker = 27
             /\ ReadOk(file, 36, 8)
             /\ ~ReadOk(file, 65984, 64) ) =>
               /\ loaded.kind = "io"
               /\ loaded.at = IF ~ReadOk(file, 256, 65536) THEN "ram"
                               ELSE IF ~ReadOk(file, 65792, 128) THEN "regs"
                               ELSE "ipl_rom"
        /\ loaded.kind # "ok" => loaded.spc = None
        /\ loaded.kind = "ok" =>
               /\ file.header = SPC_HEADER
               /\ file.magic = 6682
               /\ file.marker \in {26, 27}
               /\ ReadOk(file, 65984, 64)

\* A file with the right header, magic and marker 0x1B that ends inside the
\* boot ROM was loaded: an I/O error and no Spc.
C13_Witness ==
    /\ pc = "loaded"
    /\ file.header = SPC_HEADER
    /\ file.magic = 6682
    /\ file.marker = 27
    /\ file.len = 65985
    /\ loaded.kind = "io"
    /\ loaded.at = "ipl_rom"
    /\ loaded.spc = None

\* The same file with the marker 0x1B (no ID666 tag).
WithoutTag(f) == [f EXCEPT !.marker = 27]

\* C14: a complete file with the right header, magic 0x1A1A and marker 0x1A
\* loads, whatever its ID666 bytes are, and yields the machine state that the
\* same file with marker 0x1B yields; nothing aborts.
C14_MetadataIgnored ==
    ( /\ pc = "loaded"
      /\ file.exists
      /\ file.header = SPC_HEADER
      /\ file.magic = 6682
      /\ file.marker = 26
      /\ ReadOk(file, 65984, 64) ) =>
        /\ ~panicked
        /\ loaded.kind = "ok"
        /\ load(WithoutTag(file)).kind = "ok"
        /\ \A field \in {"pc", "a", "x", "y", "psw", "sp", "ram", "regs", "ipl_rom"} :
               loaded.spc[1][field] = load(WithoutTag(file)).spc[1][field]

----------------------------------------------------------------------------
(* Apu::render, one loop round at a time: SpecRender                       *)

\* The largest caller buffer, the largest number of samples buffered in the
\* Dsp at the start, the largest number of samples one round adds and the
\* number of render calls.
MaxBuf == 3

MaxStart == 2

MaxBatch == 2

MaxRenders == 3

\* The samples are numbered in the order the Dsp produces them; a stale
\* buffer entry is -1.
Samples(first, n) == [i \in 1 .. n |-> first + i - 1]

\* smp.run(..); dsp.flush(): k new samples are appended to the FIFO.
Dsp_flush(fifo, first, k) == fifo \o Samples(first, k)

\* output_buffer.drain(..n) that takes the newest n samples.
drain_tail(fifo, n) ==
    [ taken |-> SubSeq(fifo, Len(fifo) - n + 1, Len(fifo)),
      rest  |-> SubSeq(fifo, 1, Len(fifo) - n) ]

\* output_buffer.drain(..n): the first n samples are taken in order, the rest
\* stay.
drain(fifo, n) ==
    [ taken |-> SubSeq(fifo, 1, n),
      rest  |-> SubSeq(fifo, n + 1, Len(fifo)) ]

InitRender ==
    /\ overflow_checks = FALSE
    /\ \E n \in 0 .. MaxStart : output_buffer = Samples(0, n)
    /\ buffer = << >>
    /\ consumed = 0
    /\ pc = "idle"
    /\ timer = Timer_new(1)
    /\ fresh = Timer_new(1)
    /\ mark = Timer_new(1)
    /\ internal = 0
    /\ ret = 0
    /\ elapsed = 0
    /\ NoApu
    /\ NoFile

\* apu.render(&mut buffer) is called with a buffer of any length.
RenderCall ==
    /\ pc \in {"idle", "returned"}
    /\ elapsed < MaxRenders
    /\ \E n \in 0 .. MaxBuf : buffer' = [i \in 1 .. n |-> -1]
    /\ elapsed' = elapsed + 1
    /\ pc' = "loop"
    /\ UNCHANGED <<apu_vars, spc_vars, panicked, overflow_checks, ret, read_at,
                   internal, timer, fresh, mark, output_buffer, consumed>>

\* One round of the while loop: fewer samples are buffered than the buffer
\* holds, the Smp runs and the Dsp is flushed.
RenderRound ==
    /\ pc = "loop"
    /\ Len(output_buffer) < Len(buffer)
    /\ \E k \in 1 .. MaxBatch :
          output_buffer' =
              Dsp_flush(output_buffer, consumed + Len(output_buffer), k)
    /\ UNCHANGED <<apu_vars, spc_vars, panicked, overflow_checks, ret, read_at,
                   elapsed, internal, timer, fresh, mark, pc, buffer, consumed>>

\* The loop is left; the drained samples are written to the buffer.
RenderDrain ==
    /\ pc = "loop"
    /\ ~(Len(output_buffer) < Len(buffer))
    /\ LET d == drain(output_buffer, Len(buffer))
       IN  /\ buffer' = [i \in 1 .. Len(buffer) |-> d.taken[i]]
           /\ output_buffer' = d.rest
    /\ consumed' = consumed + Len(buffer)
    /\ pc' = "returned"
    /\ UNCHANGED <<apu_vars, spc_vars, panicked, overflow_checks, ret, read_at,
                   elapsed, internal, timer, fresh, mark>>

NextRender == RenderCall \/ RenderRound \/ RenderDrain

\* A call that has started keeps executing.
SpecRender ==
    InitRender /\ [][NextRender]_vars
        /\ WF_vars(RenderRound) /\ WF_vars(RenderDrain)

\* The Dsp FIFO holds the samples not yet moved out, in order; a buffer that
\* render has returned holds the samples moved out last, in order.
RenderMovesHead ==
    /\ output_buffer = Samples(consumed, Len(output_buffer))
    /\ pc = "returned" =>
           buffer = Samples(consumed - Len(buffer), Len(buffer))

\* The Smp runs only while fewer samples are buffered than the buffer holds.
RunsOnlyWhileShort ==
    Len(output_buffer') > Len(output_buffer) =>
        /\ pc = "loop"
        /\ Len(output_buffer) < Len(buffer)

\* C15: every render call returns; it runs rounds only while fewer than
\* len(buf) samples are buffered, then moves the first len(buf) samples of the
\* FIFO into buf in order and leaves the surplus in the Dsp in order.
C15_RenderReturns ==
    /\ []RenderMovesHead
    /\ [][RunsOnlyWhileShort]_vars
    /\ (pc = "loop") ~> (pc = "returned")

\* The second render call has returned a full buffer of three samples and
\* left a surplus in the Dsp.
C15_Witness ==
    /\ pc = "returned"
    /\ elapsed = 2
    /\ Len(buffer) = 3
    /\ Len(output_buffer) >= 1
    /\ consumed >= 4
    /\ buffer[1] = consumed - 3

----------------------------------------------------------------------------
(* More claims about the timers                                            *)

\* C16 as stated: k calls to tick() after the rising edge have made
\* floor(k / (resolution + 1)) internal ticks.
C16_OnePerResolutionPlusOne ==
    (pc = "running" /\ ~panicked) =>
        internal = elapsed \div (timer.resolution + 1)

\* C16, amended: the first internal tick comes with call resolution + 1 and
\* one more with every further `resolution` calls: k >= 1 calls have made
\* floor((k - 1) / resolution) internal ticks and left the accumulator at
\* ((k - 1) mod resolution) + 1; without a target counter_low is their number
\* modulo 256.
C16_FirstPeriodLonger ==
    (pc = "running" /\ ~panicked) =>
        /\ internal = IF elapsed = 0 THEN 0
                      ELSE (elapsed - 1) \div timer.resolution
        /\ timer.ticks = IF elapsed = 0 THEN 0
                         ELSE ((elapsed - 1) % timer.resolution) + 1
        /\ timer.target = None => timer.counter_low = internal % 256

\* A timer of resolution 2 has been ticked five times and has made two
\* internal ticks.
C16_Witness ==
    /\ pc = "running"
    /\ ~panicked
    /\ timer.resolution = 2
    /\ timer.target = None
    /\ elapsed = 5
    /\ internal = 2
    /\ timer.counter_low = 2

\* C17: set_start_stop_bit(true) on a stopped timer zeroes the accumulator and
\* counter_low and leaves counter_high and the target; stopping a running
\* timer, and a call that does not change the running flag, leave the
\* accumulator, counter_low, counter_high and the target as they are.
C17_EdgeSemantics ==
    /\ \A value \in BOOLEAN :
           LET s == set_start_stop_bit(timer, value)
           IN  /\ s.is_running = value
               /\ s.counter_high = timer.counter_high
               /\ s.target = timer.target
               /\ s.resolution = timer.resolution
               /\ IF value /\ ~timer.is_running
                  THEN s.ticks = 0 /\ s.counter_low = 0
                  ELSE s.ticks = timer.ticks /\ s.counter_low = timer.counter_low
    /\ pc = "set_start_stop_bit" =>
           /\ timer.counter_high = mark.counter_high
           /\ timer.target = mark.target
           /\ (timer.is_running /\ ~mark.is_running) =>
                  timer.ticks = 0 /\ timer.counter_low = 0
           /\ ~(timer.is_running /\ ~mark.is_running) =>
                  timer.ticks = mark.ticks /\ timer.counter_low = mark.counter_low

\* A stopped timer holding an accumulator of 1, counter_low 1 and
\* counter_high 2 has been started: the first two are zero, counter_high and
\* the target are kept.
C17_Witness ==
    /\ pc = "set_start_stop_bit"
    /\ ~mark.is_running
    /\ mark.ticks >= 1
    /\ mark.counter_low = 1
    /\ mark.counter_high = 2
    /\ timer.is_running
    /\ timer.ticks = 0
    /\ timer.counter_low = 0
    /\ timer.counter_high = 2
    /\ timer.target = Some(2)

\* The targets C18 is tried with: none, 1, 2, 3, 255.
TargetSamples == {0, 1, 2, 3, 255}

\* C18: set_target(v) changes the target and nothing else, also when v is at
\* most counter_low; at the next tick() counter_high is incremented and
\* counter_low reset exactly when that call makes an internal tick whose
\* increment brings counter_low to v, and otherwise counter_low is only
\* incremented or left.
C18_TargetOnly ==
    \A v \in TargetSamples \cup {timer.counter_low} :
        LET s == set_target(timer, v)
            t == tick(s)
            emits == s.is_running /\ s.ticks + 1 > s.resolution
            low1 == (s.counter_low + 1) % 256
        IN  /\ s = [timer EXCEPT !.target = s.target]
            /\ TargetByte(s.target) = v
            /\ ~t.panicked =>
                   IF emits /\ v # 0 /\ low1 = v
                   THEN /\ t.timer.counter_high = (s.counter_high + 1) % 256
                        /\ t.timer.counter_low = 0
                   ELSE /\ t.timer.counter_high = s.counter_high
                        /\ t.timer.counter_low =
                               IF emits THEN low1 ELSE s.counter_low

\* The target 2 was set while counter_low was beyond it; the next internal
\* tick has taken counter_low from 5 to 6 and left counter_high.
C18_Witness ==
    /\ pc = "tick"
    /\ mark.target = Some(2)
    /\ mark.is_running
    /\ mark.counter_low = 5
    /\ timer.counter_low = 6
    /\ timer.counter_high = mark.counter_high

\* The control bytes C19 is tried with: no timer, timer 0, timers 0 and 2
\* (0x85), timers 1 and 2 (0x36), all three.
RunSamples == {0, 1, 133, 54, 7}

\* The cycle counts C19 is tried with: one cycle, and the 33 that bring a
\* running timer 2 to its first internal tick.
CycleSamples == {1, 33}

\* C19: after write_u8(0x00F1, v) timer i is running iff bit i of v is set;
\* a timer that is not running is left as it is by tick() and by a cycle
\* callback, and so is what its counter register reads.
C19_RunningBits ==
    ~panicked =>
        /\ \A v \in RunSamples :
               LET w == write_u8(Self, 241, v)
               IN  /\ \A i \in 0 .. 2 :
                          w.timers[i].is_running = BitSet(v, TimerBit(i))
                   /\ v # 7 =>
                          \A n \in CycleSamples :
                              LET c == cpu_cycles_callback(w, n)
                              IN  \A i \in 0 .. 2 :
                                      ~BitSet(v, TimerBit(i)) =>
                                          /\ c.timers[i] = w.timers[i]
                                          /\ read_u8(c, 253 + i).ret =
                                                 read_u8(w, 253 + i).ret
        /\ \A i \in 0 .. 2 :
               ~timers[i].is_running => tick(timers[i]) = Done(timers[i])

\* Timer 2 counted 8 matches in the first callback, all timers were stopped,
\* and the second callback has left it at 8: no counter was read.
C19_Witness ==
    /\ elapsed = 2
    /\ read_at = -1
    /\ written[241] = 0
    /\ ~timers[2].is_running
    /\ timers[2].target = Some(1)
    /\ timers[2].counter_high = 8
    /\ timers[2].ticks > 0

\* C20: read_u8(a) for a outside 0x00FD-0x00FF changes nothing in the Apu;
\* read_u8(0x00FD + i) changes timer i's counter_high and nothing else.
C20_ReadsAreFree ==
    /\ \A a \in Cells \ (253 .. 255) : read_u8(Self, a).apu = Self
    /\ \A i \in 0 .. 2 :
           LET r == read_u8(Self, 253 + i).apu
           IN  /\ r = [Self EXCEPT !.timers[i].counter_high = r.timers[i].counter_high]
               /\ r.timers[i].counter_low = timers[i].counter_low
               /\ r.timers[i].ticks = timers[i].ticks

\* The counter of timer 1 was read after two matches and is cleared; its
\* accumulator and the counters of the other timers are as the callbacks left
\* them.
C20_Witness ==
    /\ read_at = 254
    /\ ret = 2
    /\ timers[1].counter_high = 0
    /\ timers[1].ticks > 0
    /\ timers[1].is_running
    /\ timers[0].counter_high = 2
    /\ timers[2].counter_high = 16

====
